---- MODULE Spec2Model ----
(***************************************************************************)
(* Model of src/src/ntfy_api/publisher.py: the URL composer (_NtfyURL) and *)
(* the publisher (NtfyPublisher) with its transport handle.                *)
(*                                                                         *)
(* Strings are sequences of one-character strings.  Python values that a   *)
(* caller can pass for `basic`/`bearer`/`topic` are tagged records.        *)
(* urllib.parse is modelled as CPython 3.11 implements it (typing.Self in  *)
(* the source makes 3.11 the oldest interpreter that imports the module).  *)
(***************************************************************************)
EXTENDS Integers, Sequences, FiniteSets, TLC

VARIABLES
    phase,         \* "new" (arguments bound), "ready" (constructed), "failed"
    ntfy_url,      \* NtfyPublisher.ntfy_url
    basic,         \* NtfyPublisher.basic
    bearer,        \* NtfyPublisher.bearer
    url,           \* NtfyPublisher._url (a _NtfyURL) or NoURL
    auth_header,   \* NtfyPublisher._auth_header, a mapping name -> value
    error,         \* exception raised by __post_init__, "none" if none
    client,        \* httpx.Client: "none" (never created), "open", "closed"
    calls,         \* publish / publish_json invocations so far
    posts,         \* _client.post invocations so far
    clientCloses,  \* _client.close invocations so far
    last           \* the most recent publish / publish_json / close call

vars == <<phase, ntfy_url, basic, bearer, url, auth_header, error, client,
          calls, posts, clientCloses, last>>

(***************************************************************************)
(* Bounds of the model.                                                    *)
(***************************************************************************)
MaxPathLen == 2
MaxBasicLen == 3
MaxCalls == 2

(***************************************************************************)
(* String helpers.                                                         *)
(***************************************************************************)
Min(a, b) == IF a <= b THEN a ELSE b

\* str.find(c, start), 1-based; 0 when c does not occur at or after start.
Find(s, c, start) ==
    LET hits == {k \in start..Len(s) : s[k] = c}
    IN IF hits = {} THEN 0 ELSE CHOOSE k \in hits : \A j \in hits : k <= j

\* str.rfind(c), 1-based; 0 when c does not occur.
RFind(s, c) ==
    LET hits == {k \in 1..Len(s) : s[k] = c}
    IN IF hits = {} THEN 0 ELSE CHOOSE k \in hits : \A j \in hits : j <= k

Contains(s, c) == \E k \in 1..Len(s) : s[k] = c

\* s[:n]
Take(s, n) == SubSeq(s, 1, Min(n, Len(s)))

\* s[n:] with n a 0-based Python index
Drop(s, n) == SubSeq(s, n + 1, Len(s))

EndsWith(s, t) ==
    /\ Len(t) <= Len(s)
    /\ SubSeq(s, Len(s) - Len(t) + 1, Len(s)) = t

StartsWith(s, t) == Len(t) <= Len(s) /\ SubSeq(s, 1, Len(t)) = t

\* The concatenation of a sequence of strings.
RECURSIVE Concat(_)
Concat(ss) == IF Len(ss) = 0 THEN <<>> ELSE ss[1] \o Concat(Tail(ss))

\* All sequences over S of length at most n.
SeqsUpTo(S, n) == UNION {[1..k -> S] : k \in 0..n}

(***************************************************************************)
(* urllib.parse as called by _NtfyURL.parse and _NtfyURL._unparse.         *)
(***************************************************************************)
Letters == {"a", "f", "h", "p", "q", "t", "x"}

\* urllib.parse.scheme_chars restricted to the characters of the model.
scheme_chars == Letters \cup {"+", "-", "."}

\* The entries of urllib.parse.uses_netloc / uses_params that the modelled
\* alphabet can spell ("" is in both lists).
uses_netloc == {<<>>, <<"f","t","p">>, <<"h","t","t","p">>}
uses_params == {<<>>, <<"f","t","p">>, <<"h","t","t","p">>}

\* urllib.parse._splitnetloc(url, 2): (domain, rest)
_splitnetloc(u) ==
    LET cand == {Find(u, c, 3) : c \in {"/", "?", "#"}} \ {0}
        delim == IF cand = {} THEN Len(u) + 1
                 ELSE CHOOSE k \in cand : \A j \in cand : k <= j
    IN <<SubSeq(u, 3, delim - 1), SubSeq(u, delim, Len(u))>>

\* urlsplit, scheme step: a leading run of scheme characters before the
\* first ":" is the scheme (lower-cased; the modelled letters are lower case).
SplitScheme(u) ==
    LET i == Find(u, ":", 1)
    IN IF /\ i > 1
          /\ u[1] \in Letters
          /\ \A k \in 1..(i - 1) : u[k] \in scheme_chars
       THEN [scheme |-> SubSeq(u, 1, i - 1), rest |-> SubSeq(u, i + 1, Len(u))]
       ELSE [scheme |-> <<>>, rest |-> u]

\* urlsplit, netloc step: if url[:2] == '//'
SplitNetloc(r) ==
    IF Take(r.rest, 2) = <<"/", "/">>
    THEN [scheme |-> r.scheme, netloc |-> _splitnetloc(r.rest)[1],
          rest |-> _splitnetloc(r.rest)[2]]
    ELSE [scheme |-> r.scheme, netloc |-> <<>>, rest |-> r.rest]

\* urlsplit, fragment step: url.split('#', 1)
SplitFragment(r) ==
    LET h == Find(r.rest, "#", 1)
    IN IF h > 0
       THEN [scheme |-> r.scheme, netloc |-> r.netloc,
             rest |-> SubSeq(r.rest, 1, h - 1),
             fragment |-> SubSeq(r.rest, h + 1, Len(r.rest))]
       ELSE [scheme |-> r.scheme, netloc |-> r.netloc, rest |-> r.rest,
             fragment |-> <<>>]

\* urlsplit, query step: url.split('?', 1)
SplitQuery(r) ==
    LET q == Find(r.rest, "?", 1)
    IN IF q > 0
       THEN [scheme |-> r.scheme, netloc |-> r.netloc,
             path |-> SubSeq(r.rest, 1, q - 1),
             query |-> SubSeq(r.rest, q + 1, Len(r.rest)),
             fragment |-> r.fragment]
       ELSE [scheme |-> r.scheme, netloc |-> r.netloc, path |-> r.rest,
             query |-> <<>>, fragment |-> r.fragment]

\* urllib.parse.urlsplit(url): [scheme, netloc, path, query, fragment]
urlsplit(u) == SplitQuery(SplitFragment(SplitNetloc(SplitScheme(u))))

\* urllib.parse._splitparams(url): (url, params)
_splitparams(u) ==
    LET slash == RFind(u, "/")
        i == IF slash > 0 THEN Find(u, ";", slash) ELSE Find(u, ";", 1)
    IN IF i = 0 THEN <<u, (<<>>)>>
       ELSE <<SubSeq(u, 1, i - 1), SubSeq(u, i + 1, Len(u))>>

\* urlparse, params step: if scheme in uses_params and ';' in url
SplitParams(s) ==
    IF s.scheme \in uses_params /\ Contains(s.path, ";")
    THEN [scheme |-> s.scheme, netloc |-> s.netloc,
          path |-> _splitparams(s.path)[1], params |-> _splitparams(s.path)[2],
          query |-> s.query, fragment |-> s.fragment]
    ELSE [scheme |-> s.scheme, netloc |-> s.netloc, path |-> s.path,
          params |-> <<>>, query |-> s.query, fragment |-> s.fragment]

\* urllib.parse.urlparse(url): the six components
urlparse(u) == SplitParams(urlsplit(u))

\* if part: url = url + sep + part
AppendIf(u, sep, part) == IF part # <<>> THEN u \o sep \o part ELSE u

\* urlunsplit, netloc step
JoinNetloc(scheme, netloc, u) ==
    IF \/ netloc # <<>>
       \/ (scheme # <<>> /\ scheme \in uses_netloc
           /\ Take(u, 2) # <<"/", "/">>)
    THEN <<"/", "/">> \o netloc \o
         (IF u # <<>> /\ Take(u, 1) # <<"/">> THEN <<"/">> \o u ELSE u)
    ELSE u

\* urlunsplit, scheme step: if scheme: url = scheme + ':' + url
JoinScheme(scheme, u) == IF scheme # <<>> THEN scheme \o <<":">> \o u ELSE u

\* urllib.parse.urlunsplit((scheme, netloc, url, query, fragment))
urlunsplit(scheme, netloc, u, query, fragment) ==
    AppendIf(AppendIf(JoinScheme(scheme, JoinNetloc(scheme, netloc, u)),
                      <<"?">>, query),
             <<"#">>, fragment)

\* urllib.parse.urlunparse((scheme, netloc, url, params, query, fragment))
urlunparse(scheme, netloc, u, params, query, fragment) ==
    urlunsplit(scheme, netloc, AppendIf(u, <<";">>, params), query, fragment)

(***************************************************************************)
(* _NtfyURL                                                                *)
(***************************************************************************)
\* Variant: the separator is appended without looking at the path.
NormalizePath_Always(path) == path \o <<"/">>

\* _NtfyURL.__post_init__: the stored path
NormalizePath(path) ==
    IF ~EndsWith(path, <<"/">>) THEN path \o <<"/">> ELSE path

\* The dataclass constructor followed by __post_init__
_NtfyURL(p) == [p EXCEPT !.path = NormalizePath(p.path)]

\* _NtfyURL.parse(url)
parse(u) == _NtfyURL(urlparse(u))

\* _NtfyURL._unparse(path)
_unparse(self, path) ==
    urlunparse(self.scheme, self.netloc, path, self.params, self.query,
               self.fragment)

\* _NtfyURL.unparse()
unparse(self) == _unparse(self, self.path)

\* _NtfyURL.unparse_with_topic(topic)
unparse_with_topic(self, topic) == _unparse(self, self.path \o topic)

(***************************************************************************)
(* Python values a caller can pass.                                        *)
(***************************************************************************)
PyNone == [t |-> "None"]
PyStr(s) == [t |-> "str", v |-> s]
PyTuple(items) == [t |-> "tuple", items |-> items]
PyInt(n) == [t |-> "int", n |-> n]

\* bool(x)
Truthy(x) ==
    CASE x.t = "None" -> FALSE
      [] x.t = "str" -> x.v # <<>>
      [] x.t = "tuple" -> x.items # <<>>
      [] x.t = "int" -> x.n # 0

\* ord(c) for the characters credentials are drawn from
Ord(c) ==
    CASE c = "u" -> 117
      [] c = "p" -> 112
      [] c = ":" -> 58
      [] c = "U+00E9" -> 233

\* The base64 alphabet, indexed from 1.
B64Chars ==
    <<"A","B","C","D","E","F","G","H","I","J","K","L","M","N","O","P",
      "Q","R","S","T","U","V","W","X","Y","Z","a","b","c","d","e","f",
      "g","h","i","j","k","l","m","n","o","p","q","r","s","t","u","v",
      "w","x","y","z","0","1","2","3","4","5","6","7","8","9","+","/">>

\* base64.b64encode(bytes).decode("ascii")
RECURSIVE b64encode(_)
b64encode(bs) ==
    IF Len(bs) = 0 THEN <<>>
    ELSE LET b1 == bs[1]
             b2 == IF Len(bs) >= 2 THEN bs[2] ELSE 0
             b3 == IF Len(bs) >= 3 THEN bs[3] ELSE 0
             n == b1 * 65536 + b2 * 256 + b3
             c1 == B64Chars[(n \div 262144) + 1]
             c2 == B64Chars[((n \div 4096) % 64) + 1]
             c3 == IF Len(bs) >= 2 THEN B64Chars[((n \div 64) % 64) + 1] ELSE "="
             c4 == IF Len(bs) >= 3 THEN B64Chars[(n % 64) + 1] ELSE "="
         IN <<c1, c2, c3, c4>> \o
            (IF Len(bs) > 3 THEN b64encode(SubSeq(bs, 4, Len(bs))) ELSE <<>>)

\* ":".join(strs)
RECURSIVE JoinColon(_)
JoinColon(strs) ==
    IF Len(strs) = 0 THEN <<>>
    ELSE IF Len(strs) = 1 THEN strs[1]
    ELSE strs[1] \o <<":">> \o JoinColon(Tail(strs))

\* str.encode("ascii"): the byte values
EncodeAscii(s) == [k \in 1..Len(s) |-> Ord(s[k])]

(***************************************************************************)
(* NtfyPublisher.__post_init__: the authentication header.                 *)
(***************************************************************************)
EmptyHeader == <<>>

\* _set_header(type, value)
_set_header(type, value) == ("Authorization" :> (type \o <<" ">> \o value))

BearerWord == <<"B","e","a","r","e","r">>
BasicWord == <<"B","a","s","i","c">>

Built(header) == [err |-> "none", header |-> header]
Raised(err) == [err |-> err, header |-> EmptyHeader]

\* Variant: `basic` is examined before `bearer`.
AuthHeader_BasicFirst(bearer_, basic_) ==
    IF basic_.t = "str" THEN Built(_set_header(BasicWord, basic_.v))
    ELSE IF Truthy(basic_) /\ basic_.t = "tuple" /\ Len(basic_.items) # 2
         THEN Raised("ValueError")
    ELSE IF bearer_.t # "None" THEN Built(_set_header(BearerWord, bearer_.v))
    ELSE Built(EmptyHeader)

\* The if/elif chain of __post_init__: the header, or the exception raised.
AuthHeader(bearer_, basic_) ==
    IF bearer_.t # "None" THEN Built(_set_header(BearerWord, bearer_.v))
    ELSE IF basic_.t = "str" THEN Built(_set_header(BasicWord, basic_.v))
    ELSE IF Truthy(basic_) /\ Len(basic_.items) = 2
         THEN IF \E k \in 1..2 : basic_.items[k].t # "str"
              THEN Raised("TypeError")         \* str.join of a non-str
              ELSE LET joined == JoinColon([k \in 1..2 |-> basic_.items[k].v])
                   IN IF \E k \in 1..Len(joined) : Ord(joined[k]) > 127
                      THEN Raised("UnicodeEncodeError")
                      ELSE Built(_set_header(BasicWord,
                                             b64encode(EncodeAscii(joined))))
    ELSE IF Truthy(basic_) THEN Raised("ValueError")
    ELSE Built(EmptyHeader)

\* Variant: the client is created before the credentials are examined.
ClientAfterInit_Eager(err) == "open"

\* httpx.Client() is created on the last line of __post_init__, so only when
\* nothing above it raised.
ClientAfterInit(err) == IF err = "none" THEN "open" ELSE "none"

(***************************************************************************)
(* The collaborators: Message.get_args() and the httpx.Client transport.   *)
(***************************************************************************)
Statuses == {200, 500}

Response(status) == [kind |-> "response", status |-> status, error |-> "none"]
Failure(err) == [kind |-> "error", status |-> 0, error |-> err]

\* What _client.post can do with a request: httpx refuses to send on a closed
\* client (RuntimeError) and fails to encode an unserializable json= value
\* (TypeError) before anything is sent; otherwise the server answers with some
\* status or the transport fails.
PostOutcomes(client_, serializable) ==
    IF ~serializable THEN {Failure("TypeError")}
    ELSE IF client_ # "open" THEN {Failure("RuntimeError")}
    ELSE {Response(s) : s \in Statuses} \cup {Failure("TransportError")}

(***************************************************************************)
(* NtfyPublisher.publish / publish_json / close                            *)
(***************************************************************************)
\* Variant: the topic is appended to the finished URL, not to its path.
publish_url_AppendToUrl(self_url, topic) ==
    IF Truthy(topic) THEN unparse(self_url) \o topic.v
    ELSE unparse(self_url)

\* publish: the url= argument
publish_url(self_url, topic) ==
    IF Truthy(topic) THEN unparse_with_topic(self_url, topic.v)
    ELSE unparse(self_url)

\* Variant: the merge is written the other way round, {**headers, **auth}.
publish_headers_AuthLast(auth, headers) ==
    [k \in DOMAIN auth \cup DOMAIN headers |->
        IF k \in DOMAIN auth THEN auth[k] ELSE headers[k]]

\* publish: the headers= argument, {**self._auth_header, **headers}
publish_headers(auth, headers) ==
    [k \in DOMAIN auth \cup DOMAIN headers |->
        IF k \in DOMAIN headers THEN headers[k] ELSE auth[k]]

\* Variant: publish_json takes the topic of the payload into the URL.
publish_json_url_WithTopic(self_url, raw) ==
    IF Truthy(raw.topic) THEN unparse_with_topic(self_url, raw.topic.v)
    ELSE unparse(self_url)

\* publish_json: the url= argument
publish_json_url(self_url, raw) == unparse(self_url)

\* publish_json: the headers= argument
publish_json_headers(auth, raw) == auth

\* Variant: a failed post is tried once more.
PostAttempts_Retry(outcome) == IF outcome.kind = "error" THEN 2 ELSE 1

\* Number of _client.post invocations one publish / publish_json makes: the
\* call is made once, outside any loop or try block.
PostAttempts(outcome) == 1

\* Variant: the response is checked with raise_for_status().
CallResult_RaiseForStatus(outcome) ==
    IF outcome.kind = "error" THEN outcome.error
    ELSE IF outcome.status >= 400 THEN "HTTPStatusError"
    ELSE "returned"

\* How publish / publish_json ends: the value of _client.post is discarded
\* (no raise_for_status), an exception from it is not caught.
CallResult(outcome) ==
    IF outcome.kind = "response" THEN "returned" ELSE outcome.error

\* Variant: close() does not look at is_closed.
CloseInvokesClient_Always(client_) == TRUE

\* close: whether _client.close() is invoked
CloseInvokesClient(client_) == client_ # "closed"

(***************************************************************************)
(* Bounded inputs.                                                         *)
(***************************************************************************)
\* Base URLs: every concatenation of an optional scheme, an optional
\* authority, a path of up to MaxPathLen pieces "/", "a", ";p", and an
\* optional query and fragment.
UrlSchemes == {<<>>, <<"h","t","t","p",":">>, <<"x",":">>}
UrlAuthorities == {<<>>, <<"/","/">>, <<"/","/","h">>}
UrlPieces == {<<"/">>, <<"a">>, <<";", "p">>}
UrlPaths == {Concat(ps) : ps \in SeqsUpTo(UrlPieces, MaxPathLen)}
UrlTails == {<<>>, <<"?","q">>, <<"#","f">>, <<"?","q","#","f">>}
BaseUrls ==
    {s \o a \o p \o t : s \in UrlSchemes, a \in UrlAuthorities,
                        p \in UrlPaths, t \in UrlTails}

PlainUrl == <<"h","t","t","p",":","/","/","h">>

\* Values passed as `basic`: absent, strings, and tuples of any length up to
\* MaxBasicLen whose items are strings (ASCII or not) or integers.
BasicItems == {PyStr(<<"u">>), PyStr(<<"U+00E9">>), PyInt(7)}
Basics ==
    {PyNone, PyStr(<<>>), PyStr(<<"d","T","p","1">>)}
    \cup {PyTuple(items) : items \in SeqsUpTo(BasicItems, MaxBasicLen)}
Bearers == {PyNone, PyStr(<<>>), PyStr(<<"T">>)}

\* Constructor arguments: every base URL without credentials, and every
\* credential combination on one plain URL.
Arguments ==
    {<<u, PyNone, PyNone>> : u \in BaseUrls}
    \cup {<<PlainUrl, b, t>> : b \in Basics, t \in Bearers}

\* Message.get_args(): absent, empty, plain and "/"-led topics
Topics == {PyNone, PyStr(<<>>), PyStr(<<"t">>), PyStr(<<"/", "t">>)}
HeaderNames == {"Authorization", "Title"}
MessageHeaders ==
    UNION {[names -> {<<"m">>}] : names \in SUBSET HeaderNames}
Messages ==
    [topic : Topics, headers : MessageHeaders, data : {<<"d">>}]
RawPayloads ==
    [topic : {PyNone, PyStr(<<"t">>)}, serializable : BOOLEAN]

NoURL == [scheme |-> <<>>, netloc |-> <<>>, path |-> <<>>, params |-> <<>>,
          query |-> <<>>, fragment |-> <<>>]
NoCall == [op |-> "none"]

(***************************************************************************)
(* The state machine.                                                      *)
(***************************************************************************)
Init ==
    /\ \E a \in Arguments :
          /\ ntfy_url = a[1]
          /\ basic = a[2]
          /\ bearer = a[3]
    /\ phase = "new"
    /\ url = NoURL
    /\ auth_header = EmptyHeader
    /\ error = "none"
    /\ client = "none"
    /\ calls = 0
    /\ posts = 0
    /\ clientCloses = 0
    /\ last = NoCall

\* NtfyPublisher(ntfy_url, basic, bearer): __post_init__
Construct ==
    /\ phase = "new"
    /\ LET r == AuthHeader(bearer, basic)
       IN /\ url' = parse(ntfy_url)
          /\ error' = r.err
          /\ auth_header' = r.header
          /\ client' = ClientAfterInit(r.err)
          /\ phase' = IF r.err = "none" THEN "ready" ELSE "failed"
    /\ UNCHANGED <<ntfy_url, basic, bearer, calls, posts, clientCloses, last>>

\* NtfyPublisher.publish(msg)
Publish ==
    /\ phase = "ready"
    /\ calls < MaxCalls
    /\ \E msg \in Messages :
       \E outcome \in PostOutcomes(client, TRUE) :
          /\ last' = [op |-> "publish",
                      topic |-> msg.topic,
                      given |-> msg.headers,
                      url |-> publish_url(url, msg.topic),
                      headers |-> publish_headers(auth_header, msg.headers),
                      body |-> msg.data,
                      open |-> (client = "open"),
                      outcome |-> outcome,
                      result |-> CallResult(outcome)]
          /\ posts' = posts + PostAttempts(outcome)
    /\ calls' = calls + 1
    /\ UNCHANGED <<phase, ntfy_url, basic, bearer, url, auth_header, error,
                   client, clientCloses>>

\* NtfyPublisher.publish_json(raw)
PublishJson ==
    /\ phase = "ready"
    /\ calls < MaxCalls
    /\ \E raw \in RawPayloads :
       \E outcome \in PostOutcomes(client, raw.serializable) :
          /\ last' = [op |-> "publish_json",
                      topic |-> raw.topic,
                      given |-> EmptyHeader,
                      url |-> publish_json_url(url, raw),
                      headers |-> publish_json_headers(auth_header, raw),
                      body |-> <<"j">>,
                      open |-> (client = "open"),
                      outcome |-> outcome,
                      result |-> CallResult(outcome)]
          /\ posts' = posts + PostAttempts(outcome)
    /\ calls' = calls + 1
    /\ UNCHANGED <<phase, ntfy_url, basic, bearer, url, auth_header, error,
                   client, clientCloses>>

\* NtfyPublisher.close()
Close ==
    /\ phase = "ready"
    /\ IF CloseInvokesClient(client)
       THEN /\ client' = "closed"
            /\ clientCloses' = clientCloses + 1
       ELSE UNCHANGED <<client, clientCloses>>
    /\ last' = [op |-> "close",
                open |-> (client = "open"),
                result |-> "returned"]
    /\ UNCHANGED <<phase, ntfy_url, basic, bearer, url, auth_header, error,
                   calls, posts>>

Next == Construct \/ Publish \/ PublishJson \/ Close

Spec == Init /\ [][Next]_vars

(***************************************************************************)
(* Properties.                                                             *)
(***************************************************************************)
Constructed == phase # "new"

\* C1: whenever bearer is supplied, whatever basic is, construction succeeds
\* and the auth header is exactly Authorization = "Bearer " + bearer; no
\* Basic header is produced.
C1_BearerWins ==
    (Constructed /\ bearer.t # "None") =>
        /\ phase = "ready"
        /\ error = "none"
        /\ DOMAIN auth_header = {"Authorization"}
        /\ auth_header["Authorization"] = BearerWord \o <<" ">> \o bearer.v
        /\ ~StartsWith(auth_header["Authorization"], BasicWord)

C1_Witness ==
    /\ phase = "ready"
    /\ bearer.t = "str"
    /\ basic.t = "tuple"
    /\ Len(basic.items) = 3

\* C2: with bearer absent and basic supplied but neither a string nor a
\* two-element pair, construction fails with the invalid-credentials error
\* (ValueError), for sequences of every other length as well.
C2_MalformedBasicRejected ==
    (/\ Constructed
     /\ bearer.t = "None"
     /\ basic.t \notin {"None", "str"}
     /\ ~(basic.t = "tuple" /\ Len(basic.items) = 2)) =>
        (phase = "failed" /\ error = "ValueError")

\* The text urlunparse puts after the path: [;params][?query][#fragment].
ExpectedTail(u) ==
    (IF u.params # <<>> THEN <<";">> \o u.params ELSE <<>>)
    \o (IF u.query # <<>> THEN <<"?">> \o u.query ELSE <<>>)
    \o (IF u.fragment # <<>> THEN <<"#">> \o u.fragment ELSE <<>>)

\* `target` is `base` with `topic` put in right before `tail`, the part of
\* `base` before `tail` ends with the stored path, and with an authority the
\* target is scheme://authority path topic [;params][?query][#fragment].
Spliced(target, base, tail, u, topic) ==
    /\ EndsWith(base, u.path \o tail)
    /\ target = SubSeq(base, 1, Len(base) - Len(tail)) \o topic \o tail
    /\ u.netloc # <<>> =>
         target = (IF u.scheme # <<>> THEN u.scheme \o <<":">> ELSE <<>>)
                  \o <<"/", "/">> \o u.netloc \o u.path \o topic \o tail

\* target is the base URL unparse(u) with `topic` put right after the stored
\* path and everything before and after the path left as it is.
TargetIsBaseWithTopic(target, u, topic) ==
    Spliced(target, unparse(u), ExpectedTail(u), u, topic)

TopicText(topic) == IF Truthy(topic) THEN topic.v ELSE <<>>

\* C3 (as amended): for every publish call whose base URL has a non-empty
\* authority or whose topic does not begin with "/", the POST target is the
\* base URL with the topic appended directly to the normalized path (the
\* normalized path as-is when the topic is absent or empty), scheme,
\* authority, params, query and fragment unchanged.
C3_TargetUrl ==
    (/\ last.op = "publish"
     /\ (url.netloc # <<>> \/ ~StartsWith(TopicText(last.topic), <<"/">>))) =>
        TargetIsBaseWithTopic(last.url, url, TopicText(last.topic))

C3_Witness ==
    /\ last.op = "publish"
    /\ Truthy(last.topic)
    /\ url.scheme # <<>>
    /\ url.netloc # <<>>
    /\ url.params # <<>>
    /\ url.query # <<>>

\* C3 (as stated): the same for every publish call, whatever the topic.
C3_TargetUrl_EveryTopic ==
    last.op = "publish" =>
        TargetIsBaseWithTopic(last.url, url, TopicText(last.topic))

C4_Merged ==
    last.op = "publish" =>
        /\ DOMAIN last.headers = DOMAIN auth_header \cup DOMAIN last.given
        /\ \A k \in DOMAIN last.given : last.headers[k] = last.given[k]
        /\ \A k \in DOMAIN auth_header \ DOMAIN last.given :
              last.headers[k] = auth_header[k]

C4_AuthKept == phase = "ready" => auth_header' = auth_header

\* C4: the headers publish sends are the auth header merged with the
\* message's headers: every message header is sent with the message's value
\* (Authorization included), the configured Authorization is sent unchanged
\* when the message does not supply that key, and the stored auth header is
\* never modified.
C4_HeaderMerge == []C4_Merged /\ [][C4_AuthKept]_vars

C4_Witness ==
    /\ last.op = "publish"
    /\ "Authorization" \in DOMAIN auth_header
    /\ "Authorization" \in DOMAIN last.given
    /\ last.headers["Authorization"] # auth_header["Authorization"]

\* C5: publish_json always posts to the base URL without a topic segment and
\* with exactly the auth header, whatever the payload holds and whatever
\* calls preceded it.
C5_JsonTarget ==
    last.op = "publish_json" =>
        /\ TargetIsBaseWithTopic(last.url, url, <<>>)
        /\ last.headers = auth_header

C5_Witness ==
    /\ last.op = "publish_json"
    /\ Truthy(last.topic)
    /\ calls = MaxCalls
    /\ "Authorization" \in DOMAIN auth_header

\* C6: every publish / publish_json call makes exactly one post on the
\* transport, also when that post fails: posts made = calls made.
C6_OnePostPerCall == posts = calls

C6_Witness ==
    /\ calls = MaxCalls
    /\ last.op = "publish"
    /\ last.open
    /\ last.outcome.kind = "error"
    /\ last.outcome.error = "TransportError"

\* C7: a call returns normally for every response status, 4xx and 5xx
\* included; it fails only when the transport (or JSON serialization) raises,
\* and then with that very error.
C7_StatusIgnored ==
    last.op \in {"publish", "publish_json"} =>
        /\ last.outcome.kind = "response" => last.result = "returned"
        /\ last.outcome.kind = "error" => last.result = last.outcome.error
        /\ last.result # "returned" => last.outcome.kind = "error"

C7_Witness ==
    /\ last.op = "publish"
    /\ last.outcome.kind = "response"
    /\ last.outcome.status >= 400
    /\ last.result = "returned"

C8_ClosedOnce ==
    /\ clientCloses <= 1
    /\ client = "closed" <=> clientCloses = 1
    /\ last.op = "close" => (client = "closed" /\ last.result = "returned")

C8_StaysClosed == client = "closed" => client' = "closed"

\* C8: the first close() closes the transport handle, every later close() is
\* a no-op that raises nothing and does not call the transport's close again,
\* and a closed handle is never reopened.
C8_CloseIdempotent == []C8_ClosedOnce /\ [][C8_StaysClosed]_vars

C8_Witness ==
    /\ last.op = "close"
    /\ ~last.open
    /\ clientCloses = 1
    /\ calls > 0

\* C9: after construction the stored path always ends with "/": a parsed
\* path without a trailing "/" (the empty path too) gets exactly one "/"
\* appended, one that has it is stored unchanged, and normalizing the stored
\* path again changes nothing.
C9_PathNormalized ==
    Constructed =>
        LET raw == urlparse(ntfy_url).path
        IN /\ EndsWith(url.path, <<"/">>)
           /\ EndsWith(raw, <<"/">>) => url.path = raw
           /\ ~EndsWith(raw, <<"/">>) => url.path = raw \o <<"/">>
           /\ NormalizePath(url.path) = url.path

C9_Witness ==
    /\ phase = "ready"
    /\ calls > 0
    /\ urlparse(ntfy_url).path = <<>>
    /\ url.path = <<"/">>

\* C10: a construction that fails on the credentials never opens a transport
\* handle.
C10_NoClientOnFailure ==
    phase = "failed" => (client = "none" /\ clientCloses = 0)

C10_Witness ==
    /\ phase = "failed"
    /\ error = "ValueError"
    /\ url # NoURL

====
